---- MODULE Spec2Model ----
(***************************************************************************)
(* A model of master/build-rust-manifest.py: one run of the script that    *)
(* resolves the rustc and cargo build dates and versions of a channel,     *)
(* probes the archives for every package and target, and writes the v2     *)
(* channel manifest(s).                                                    *)
(*                                                                         *)
(* Strings are TLA+ strings, handled character by character with Len,      *)
(* SubSeq and \o the way the python string methods handle them.            *)
(***************************************************************************)
EXTENDS Integers, Sequences, FiniteSets, TLC

VARIABLES
    channel,              \* sys.argv[1]
    pc,                   \* position of the run in the script
    error,                \* "" or the kind of the uncaught exception
    faults,               \* soft deviations of the environment met so far
    fetched,              \* log of urllib2.urlopen GET requests
    temp_files,           \* paths present in temp_dir
    installer_name,       \* local of version_from_channel
    installer_file,       \* local of version_from_channel
    rustc_date, rustc_version, rustc_short_version,
    cargo_date, cargo_version, cargo_short_version,
    pkg_idx,              \* which build_package_def_from_archive call
    tgt_idx,              \* targets of the current call already handled
    target_pkgs,          \* local of build_package_def_from_archive
    call,                 \* arguments and urls of the last live_package_url
    probes,               \* HEAD requests of the last live_package_url
    live_url,             \* result of the last live_package_url
    packages,             \* local of build_manifest
    host_idx,             \* hosts of the 'rust' package already handled
    rust_target_pkgs,     \* local of build_manifest
    local_files,          \* paths url_and_hash_of_rust_package looked up
    manifest,             \* result of build_manifest
    written,              \* files opened for writing, in order
    summary               \* lines of print_summary

vars == <<channel, pc, error, faults, fetched, temp_files,
          installer_name, installer_file,
          rustc_date, rustc_version, rustc_short_version,
          cargo_date, cargo_version, cargo_short_version,
          pkg_idx, tgt_idx, target_pkgs, call, probes, live_url,
          packages, host_idx, rust_target_pkgs, local_files, manifest, written,
          summary>>

-----------------------------------------------------------------------------
(* Bounds of the model *)

\* Soft deviations of the environment (an artifact that is missing or only
\* channel-tagged, a side-file that is not a digest, a missing local 'rust'
\* archive) one run may meet.
MaxFaults == 1

\* Longest version string handed to parse_short_version on its own.
MaxVersionLen == 6

-----------------------------------------------------------------------------
(* python values and string methods *)

None == "None"

Min(a, b) == IF a < b THEN a ELSE b

Range(s) == {s[i] : i \in DOMAIN s}

\* s[0:n]
Take(s, n) == SubSeq(s, 1, Min(n, Len(s)))

\* s[n:]
Drop(s, n) == SubSeq(s, n + 1, Len(s))

CharAt(s, i) == SubSeq(s, i, i)

\* s.startswith(p)
StartsWith(s, p) == Len(p) <= Len(s) /\ SubSeq(s, 1, Len(p)) = p

\* s.endswith(p)
EndsWith(s, p) ==
    Len(p) <= Len(s) /\ SubSeq(s, Len(s) - Len(p) + 1, Len(s)) = p

\* sub in s
Contains(s, sub) ==
    \E i \in 0..(Len(s) - Len(sub)) : SubSeq(s, i + 1, i + Len(sub)) = sub

Whitespace == {" ", "\n", "\t", "\r"}

RECURSIVE LStrip(_)
LStrip(s) ==
    IF Len(s) > 0 /\ CharAt(s, 1) \in Whitespace THEN LStrip(Drop(s, 1)) ELSE s

RECURSIVE RStrip(_)
RStrip(s) ==
    IF Len(s) > 0 /\ CharAt(s, Len(s)) \in Whitespace
    THEN RStrip(Take(s, Len(s) - 1)) ELSE s

\* s.strip()
Strip(s) == RStrip(LStrip(s))

\* Position of the first sep in s at or after position i, 0 if none.
Find(s, sep, i) ==
    LET hits == {k \in i..(Len(s) - Len(sep) + 1) :
                    SubSeq(s, k, k + Len(sep) - 1) = sep}
    IN  IF hits = {} THEN 0 ELSE CHOOSE k \in hits : \A j \in hits : k <= j

\* s.split(sep): always at least one field
RECURSIVE Split(_, _)
Split(s, sep) ==
    LET k == Find(s, sep, 1) IN
    IF k = 0 THEN <<s>>
    ELSE <<Take(s, k - 1)>> \o Split(Drop(s, k + Len(sep) - 1), sep)

\* s.replace(old, new), old not empty
RECURSIVE Replace(_, _, _)
Replace(s, old, new) ==
    LET k == Find(s, old, 1) IN
    IF k = 0 THEN s
    ELSE Take(s, k - 1) \o new \o Replace(Drop(s, k + Len(old) - 1), old, new)

Digits == {"0", "1", "2", "3", "4", "5", "6", "7", "8", "9"}

\* Length of the longest run of digits at the start of s: a greedy \d*
RECURSIVE DigitRun(_)
DigitRun(s) ==
    IF Len(s) > 0 /\ CharAt(s, 1) \in Digits THEN 1 + DigitRun(Drop(s, 1)) ELSE 0

\* Characters of the names the script sorts, in ASCII order.
CharOrder == "*-0123456789_abcdefghijklmnopqrstuvwxyz"

Ord(c) == Find(CharOrder, c, 1)

\* a < b for python strings
StrLess(a, b) ==
    LET n == Min(Len(a), Len(b))
        diff == {i \in 1..n : CharAt(a, i) # CharAt(b, i)}
    IN  IF diff = {} THEN Len(a) < Len(b)
        ELSE LET k == CHOOSE i \in diff : \A j \in diff : i <= j
             IN  Ord(CharAt(a, k)) < Ord(CharAt(b, k))

\* sorted(list): the element at place i goes to the place its rank gives it
\* (equal elements keep their order)
Rank(s) ==
    [i \in 1..Len(s) |->
        1 + Cardinality({j \in 1..Len(s) : \/ StrLess(s[j], s[i])
                                           \/ s[j] = s[i] /\ j < i})]

Permuted(s, rank) ==
    [r \in 1..Len(s) |-> s[CHOOSE i \in 1..Len(s) : rank[i] = r]]

sorted(s) == CHOOSE t \in {Permuted(l, rank) : l \in {s}, rank \in {Rank(s)}} : TRUE

-----------------------------------------------------------------------------
(* The platform lists *)

host_list == sorted(<<
    "aarch64-unknown-linux-gnu",
    "arm-unknown-linux-gnueabi",
    "arm-unknown-linux-gnueabihf",
    "armv7-unknown-linux-gnueabihf",
    "i686-apple-darwin",
    "i686-pc-windows-gnu",
    "i686-pc-windows-msvc",
    "i686-unknown-linux-gnu",
    "x86_64-apple-darwin",
    "x86_64-pc-windows-gnu",
    "x86_64-pc-windows-msvc",
    "x86_64-unknown-freebsd",
    "x86_64-unknown-linux-gnu",
    "x86_64-unknown-netbsd" >>)

target_list == sorted(<<
    "aarch64-apple-ios",
    "aarch64-linux-android",
    "aarch64-unknown-linux-gnu",
    "arm-linux-androideabi",
    "arm-unknown-linux-gnueabi",
    "arm-unknown-linux-gnueabihf",
    "arm-unknown-linux-musleabi",
    "arm-unknown-linux-musleabihf",
    "armv7-apple-ios",
    "armv7-linux-androideabi",
    "armv7-unknown-linux-gnueabihf",
    "armv7-unknown-linux-musleabihf",
    "armv7s-apple-ios",
    "asmjs-unknown-emscripten",
    "i386-apple-ios",
    "i586-pc-windows-msvc",
    "i586-unknown-linux-gnu",
    "i686-apple-darwin",
    "i686-linux-android",
    "i686-pc-windows-gnu",
    "i686-pc-windows-msvc",
    "i686-unknown-freebsd",
    "i686-unknown-linux-gnu",
    "i686-unknown-linux-musl",
    "mips-unknown-linux-gnu",
    "mips-unknown-linux-musl",
    "mips64-unknown-linux-gnuabi64",
    "mips64el-unknown-linux-gnuabi64",
    "mipsel-unknown-linux-gnu",
    "mipsel-unknown-linux-musl",
    "powerpc-unknown-linux-gnu",
    "powerpc64-unknown-linux-gnu",
    "powerpc64le-unknown-linux-gnu",
    "s390x-unknown-linux-gnu",
    "wasm32-unknown-emscripten",
    "x86_64-apple-darwin",
    "x86_64-apple-ios",
    "x86_64-pc-windows-gnu",
    "x86_64-pc-windows-msvc",
    "x86_64-rumprun-netbsd",
    "x86_64-unknown-freebsd",
    "x86_64-unknown-linux-gnu",
    "x86_64-unknown-linux-musl",
    "x86_64-unknown-netbsd" >>)

mingw_list == sorted(<<
    "x86_64-pc-windows-gnu",
    "i686-pc-windows-gnu" >>)

cargo_revs ==
    "https://raw.githubusercontent.com/rust-lang/rust-packaging/master/cargo-revs.txt"

-----------------------------------------------------------------------------
(* The invocation: sys.argv[2..6] of the modelled runs *)

today == "2016-12-21"

s3_addy == "http://s3"

public_addy == "https://static"

rust_package_dir == "/pkg"

temp_dir == "/tmp/work"

Channels == {"nightly", "beta", "stable"}

-----------------------------------------------------------------------------
(* The environment: what urllib2.urlopen, tar and the disk may answer *)

HTTP_OK == 200

\* A response urlopen returns, and the exception it raises instead
\* (HTTPError for a 4xx or 5xx status, URLError when unreachable).
Resp(code, body) == [raised |-> FALSE, code |-> code, body |-> body]

Raised == [raised |-> TRUE, code |-> 0, body |-> ""]

\* A status urlopen hands back without raising that is not 200.
NoContent == Resp(204, "")

\* What a GET may answer when the resource, if there, has one of `bodies`.
GetResponses(bodies) == {Resp(HTTP_OK, b) : b \in bodies} \cup {NoContent, Raised}

\* What a HEAD probe may answer.
HeadResponses == {Resp(HTTP_OK, ""), NoContent, Raised}

\* channel-$component-$channel-date.txt as finish_dist writes it
DateBody(component) ==
    IF component = "cargo" THEN "2016-12-18\n" ELSE "2016-12-20\n"

\* The v1 manifest of a component, and a listing that names no installer of it.
ListingBodies(chan, component) ==
    { component \o "-" \o chan \o "-i686-unknown-linux-gnu.tar.gz\n"
        \o component \o "-" \o chan \o "-x86_64-pc-windows-gnu.exe\n"
        \o component \o "-" \o chan \o "-x86_64-unknown-linux-gnu.tar.gz\n",
      "rust-docs-" \o chan \o "-x86_64-pc-windows-gnu.msi\n" }

\* The `version` file of an installer: one parse_short_version accepts and
\* one it rejects.
VersionFiles(component) ==
    IF component = "cargo"
    THEN {"0.15.0-nightly (298a012 2016-12-20)\n", "cargo 0.15.0\n"}
    ELSE {"1.14.0 (e8a012324 2016-12-16)\n", "rustc 1.14.0\n"}

\* The bytes of an installer: a gzipped tarball holding a version file, one
\* holding none, and bytes tar cannot extract.
Archives(component) ==
    {[gzip_tar |-> TRUE, version |-> v] : v \in VersionFiles(component)}
      \cup {[gzip_tar |-> TRUE, version |-> None],
            [gzip_tar |-> FALSE, version |-> None]}

\* cargo-revs.txt
CargoRevsBodies ==
    { "1.13.0: 2016-11-10\n1.14.0 : 2016-12-18\n",
      "1.14.0-beta.1:2016-11-11\n1.14.0:2016-12-18\n1.14.0:2016-12-19\n",
      "1.13.0: 2016-11-10\n1.15.0: 2016-12-18\n",
      "# rustc:cargo\n\n1.14.0: 2016-12-18\n",
      "" }

GoodDigest == "e3b0c44298fc1c149afbf4c8996fb92427ae41e4649b934ca495991b7852b855"

\* A .sha256 side-file as shasum writes it.
GoodSideFile == GoodDigest \o "  installer.tar.gz\n"

\* Side-files that hold no digest: an empty one, a truncated one and the
\* error document of the bucket.
BadSideFiles ==
    { "",
      "e3b0c44298fc1c14\n",
      "<?xml version=\"1.0\"?><Error><Code>AccessDenied</Code></Error>\n" }

\* hashlib.sha256(buf).hexdigest() of the bytes of the local archives
sha256_hexdigest(buf) ==
    IF buf = ""
    THEN "e3b0c44298fc1c149afbf4c8996fb92427ae41e4649b934ca495991b7852b855"
    ELSE "ba7816bf8f01cfea414140de5dae2223b00361a396177a9cb410ff61f20015ad"

\* The bytes of a local 'rust' archive, when it is there.
LocalArchives == {"abc"}

\* The targets whose artifacts may deviate: every other artifact is there
\* under its version-tagged name, with a side-file holding a digest, and
\* every other local 'rust' archive is on the disk.
FlakyTargets == {"x86_64-pc-windows-gnu", "wasm32-unknown-emscripten", "*"}

\* Whether the environment may deviate once more, for this target.
MayDeviate(n, target) == n < MaxFaults /\ target \in FlakyTargets

-----------------------------------------------------------------------------
(* Pure functions of the script *)

dist_folder(component) == IF component = "cargo" THEN "cargo-dist" ELSE "dist"

\* most_recent_build_date: the url it downloads
date_url(chan, component) ==
    s3_addy \o "/" \o dist_folder(component) \o "/channel-" \o component
        \o "-" \o chan \o "-date.txt"

\* version_from_channel: the url of the v1 manifest
manifest_url(chan, component, date) ==
    s3_addy \o "/" \o dist_folder(component) \o "/" \o date \o "/channel-"
        \o component \o "-" \o chan

\* version_from_channel: the last line naming an installer, None if none does
RECURSIVE FindInstaller(_, _, _)
FindInstaller(lines, component, found) ==
    IF Len(lines) = 0 THEN found
    ELSE FindInstaller(Tail(lines), component,
            IF StartsWith(lines[1], component) /\ EndsWith(lines[1], ".tar.gz")
            THEN lines[1] ELSE found)

installer_name_of(manifest_body, component) ==
    FindInstaller(Split(Strip(manifest_body), "\n"), component, None)

installer_url(component, date, name) ==
    s3_addy \o "/" \o dist_folder(component) \o "/" \o date \o "/" \o name

unpack_dir == temp_dir \o "/unpack"

version_file == unpack_dir \o "/version"

\* re.compile("^\d*\.\d*\.\d*").match(version): the matched text, None if
\* there is no match. Every \d* is greedy and is followed by a character that
\* is no digit, so the match never backtracks.
parse_short_version(version) ==
    LET a == DigitRun(version)
        r1 == Drop(version, a)
    IN  IF ~StartsWith(r1, ".") THEN None
        ELSE LET b == DigitRun(Drop(r1, 1))
                 r2 == Drop(r1, 1 + b)
             IN  IF ~StartsWith(r2, ".") THEN None
                 ELSE Take(version, a + 1 + b + 1 + DigitRun(Drop(r2, 1)))

\* The loop with the versions compared by prefix
RECURSIVE ScanRevsPrefix(_, _)
ScanRevsPrefix(lines, rustc_ver) ==
    IF Len(lines) = 0 THEN [raised |-> "no_cargo_rev", date |-> None]
    ELSE LET values == Split(lines[1], ":") IN
         IF Len(values) < 2 THEN [raised |-> "IndexError", date |-> None]
         ELSE IF StartsWith(Strip(values[1]), rustc_ver)
              THEN [raised |-> "", date |-> Strip(values[2])]
              ELSE ScanRevsPrefix(Tail(lines), rustc_ver)

cargo_date_from_packaging_prefix(revs_body, rustc_ver) ==
    ScanRevsPrefix(Split(Strip(revs_body), "\n"), rustc_ver)

\* cargo_date_from_packaging: the loop over the lines of cargo-revs.txt.
\* "IndexError" when a line without ':' is met before a match.
RECURSIVE ScanRevs(_, _)
ScanRevs(lines, rustc_ver) ==
    IF Len(lines) = 0 THEN [raised |-> "no_cargo_rev", date |-> None]
    ELSE LET values == Split(lines[1], ":") IN
         IF Len(values) < 2 THEN [raised |-> "IndexError", date |-> None]
         ELSE IF Strip(values[1]) = rustc_ver
              THEN [raised |-> "", date |-> Strip(values[2])]
              ELSE ScanRevs(Tail(lines), rustc_ver)

cargo_date_from_packaging(revs_body, rustc_ver) ==
    ScanRevs(Split(Strip(revs_body), "\n"), rustc_ver)

-----------------------------------------------------------------------------
(* build_manifest and its helpers *)

EmptyDict == <<>>

\* The calls with rust-std built for the hosts only
PackageCalls_std_for_hosts == <<
    [name |-> "rustc",      dist_dir |-> "dist",       of |-> "rustc", targets |-> host_list],
    [name |-> "rust-std",   dist_dir |-> "dist",       of |-> "rustc", targets |-> host_list],
    [name |-> "rust-docs",  dist_dir |-> "dist",       of |-> "rustc", targets |-> host_list],
    [name |-> "cargo",      dist_dir |-> "cargo-dist", of |-> "cargo", targets |-> host_list],
    [name |-> "rust-mingw", dist_dir |-> "dist",       of |-> "rustc", targets |-> mingw_list],
    [name |-> "rust-src",   dist_dir |-> "dist",       of |-> "rustc", targets |-> <<"*">>] >>

\* The six build_package_def_from_archive calls of build_manifest, in order:
\* name, dist_dir, which component's date and version, and the target list.
PackageCalls == <<
    [name |-> "rustc",      dist_dir |-> "dist",       of |-> "rustc", targets |-> host_list],
    [name |-> "rust-std",   dist_dir |-> "dist",       of |-> "rustc", targets |-> target_list],
    [name |-> "rust-docs",  dist_dir |-> "dist",       of |-> "rustc", targets |-> host_list],
    [name |-> "cargo",      dist_dir |-> "cargo-dist", of |-> "cargo", targets |-> host_list],
    [name |-> "rust-mingw", dist_dir |-> "dist",       of |-> "rustc", targets |-> mingw_list],
    [name |-> "rust-src",   dist_dir |-> "dist",       of |-> "rustc", targets |-> <<"*">>] >>

\* live_package_url: <<url1, url2>>, the version-tagged and the channel-tagged
\* candidate
candidate_urls(chan, name, dist_dir, date, version, target) ==
    LET maybe_channel == IF name = "cargo" THEN "nightly" ELSE chan
        base == s3_addy \o "/" \o dist_dir \o "/" \o date \o "/"
    IN  IF name = "rust-src"
        THEN << base \o "rust-src-" \o version \o ".tar.gz",
                base \o "rust-src-" \o maybe_channel \o ".tar.gz" >>
        ELSE << base \o name \o "-" \o version \o "-" \o target \o ".tar.gz",
                base \o name \o "-" \o maybe_channel \o "-" \o target \o ".tar.gz" >>

\* A probe taken to confirm whenever urlopen does not raise
probe_confirms_any_status(resp) == ~resp.raised

\* live_package_url: whether a probe lets it return the url probed
probe_confirms(resp) == ~resp.raised /\ resp.code = HTTP_OK

\* hash_from_s3_installer with the failed download swallowed, the way
\* live_package_url swallows its own
hash_from_s3_installer_swallowed(resp) ==
    IF resp.raised \/ resp.code # HTTP_OK
    THEN [raised |-> FALSE, hash |-> ""]
    ELSE [raised |-> FALSE, hash |-> Take(resp.body, 64)]

\* hash_from_s3_installer on the response to the GET of url + ".sha256"
hash_from_s3_installer(resp) ==
    IF resp.raised \/ resp.code # HTTP_OK
    THEN [raised |-> TRUE, hash |-> None]
    ELSE [raised |-> FALSE, hash |-> Take(resp.body, 64)]

\* The body of the loop with a missing target skipped instead of recorded
target_pkgs_after_skipping(pkgs, target, url, hash) ==
    IF url # None
    THEN (target :> [available |-> TRUE,
                     url |-> Replace(url, s3_addy, public_addy),
                     hash |-> hash]) @@ pkgs
    ELSE pkgs

\* build_package_def_from_archive: target_pkgs after the body of the loop for
\* `target`, given what live_package_url and hash_from_s3_installer returned
target_pkgs_after(pkgs, target, url, hash) ==
    IF url # None
    THEN (target :> [available |-> TRUE,
                     url |-> Replace(url, s3_addy, public_addy),
                     hash |-> hash]) @@ pkgs
    ELSE (target :> [available |-> FALSE, url |-> "", hash |-> ""]) @@ pkgs

\* The required components with rust-mingw added for every windows host
required_components_every_windows(host) ==
    [i \in 1..4 |-> [pkg |-> <<"rustc", "rust-std", "rust-docs", "cargo">>[i],
                     target |-> host]]
      \o (IF Contains(host, "windows")
          THEN <<[pkg |-> "rust-mingw", target |-> host]>> ELSE <<>>)

\* build_manifest: the required components of the 'rust' package for host
required_components(host) ==
    [i \in 1..4 |-> [pkg |-> <<"rustc", "rust-std", "rust-docs", "cargo">>[i],
                     target |-> host]]
      \o (IF Contains(host, "windows") /\ Contains(host, "gnu")
          THEN <<[pkg |-> "rust-mingw", target |-> host]>> ELSE <<>>)

\* build_manifest: the extensions of the 'rust' package for host
extensions(host) ==
    LET others == SelectSeq(target_list, LAMBDA t : t # host)
    IN  [i \in 1..Len(others) |-> [pkg |-> "rust-std", target |-> others[i]]]
          \o <<[pkg |-> "rust-src", target |-> "*"]>>

\* url_and_hash_of_rust_package: local_file, the path it looks up
local_file(chan, target, short_version) ==
    LET version == IF chan = "stable" THEN short_version ELSE chan
    IN  rust_package_dir \o "/" \o "rust-" \o version \o "-" \o target \o ".tar.gz"

url_and_hash_of_rust_package_channel_named(chan, target, short_version, local) ==
    LET file_name == "rust-" \o chan \o "-" \o target \o ".tar.gz"
    IN  IF local = None THEN [none |-> TRUE, url |-> None, hash |-> None]
        ELSE [none |-> FALSE,
              url |-> public_addy \o "/dist/" \o today \o "/" \o file_name,
              hash |-> sha256_hexdigest(local)]

\* url_and_hash_of_rust_package; `local` is the bytes of the local file, None
\* when os.path.exists says it is not there. The result says in `none`
\* whether it is python's None.
url_and_hash_of_rust_package(chan, target, short_version, local) ==
    LET version == IF chan = "stable" THEN short_version ELSE chan
        file_name == "rust-" \o version \o "-" \o target \o ".tar.gz"
    IN  IF local = None THEN [none |-> TRUE, url |-> None, hash |-> None]
        ELSE [none |-> FALSE,
              url |-> public_addy \o "/dist/" \o today \o "/" \o file_name,
              hash |-> sha256_hexdigest(local)]

\* build_manifest: the record of the 'rust' package for host
rust_target_pkg(host, url_and_hash) ==
    [available |-> ~url_and_hash.none,
     url |-> IF ~url_and_hash.none THEN url_and_hash.url ELSE "",
     hash |-> IF ~url_and_hash.none THEN url_and_hash.hash ELSE "",
     components |-> required_components(host),
     extensions |-> extensions(host)]

-----------------------------------------------------------------------------
(* generate_manifest, write_manifest and print_summary *)

\* Every name a package or target can have, sorted.
SetToSeq(S, rank) == [r \in 1..Cardinality(S) |-> CHOOSE x \in S : rank[x] = r]

SortedSet(S) ==
    CHOOSE t \in {SetToSeq(S, rank) :
                    rank \in {[x \in S |-> 1 + Cardinality({y \in S : StrLess(y, x)})]}} :
        TRUE

AllKeysSorted ==
    SortedSet({"rust", "rustc", "rust-std", "rust-docs", "cargo", "rust-mingw",
               "rust-src", "*"}
              \cup Range(host_list) \cup Range(target_list) \cup Range(mingw_list))

\* sorted(d.items()), as the keys: every key of the dicts of a manifest is
\* one of AllKeysSorted, so the sorted keys are those of that list d holds.
sorted_keys(d) == SelectSeq(AllKeysSorted, LAMBDA k : k \in DOMAIN d)

\* write_manifest: the tables it writes, in the order it writes them. The
\* values are kept as they are before quote() escapes them.
Document(m) ==
    LET names == sorted_keys(m.pkg)
        TargetTable(t, rec) ==
            [target |-> t,
             available |-> IF rec.available THEN "true" ELSE "false",
             url |-> rec.url,
             hash |-> rec.hash,
             components |-> IF "components" \in DOMAIN rec
                            THEN rec.components ELSE <<>>,
             extensions |-> IF "extensions" \in DOMAIN rec
                            THEN rec.extensions ELSE <<>>]
        PkgTable(name) ==
            LET tgts == sorted_keys(m.pkg[name].target)
            IN  [pkg |-> name,
                 version |-> m.pkg[name].version,
                 targets |-> [j \in 1..Len(tgts) |->
                                TargetTable(tgts[j], m.pkg[name].target[tgts[j]])]]
    IN  [manifest_version |-> "2",
         date |-> today,
         pkgs |-> [i \in 1..Len(names) |-> PkgTable(names[i])]]

\* The files with the permanent manifest of a stable release left out
manifest_files_channel_only(chan, short_version) ==
    <<rust_package_dir \o "/channel-rust-" \o chan \o ".toml">>

\* generate_manifest: the files it writes, in order
manifest_files(chan, short_version) ==
    <<rust_package_dir \o "/channel-rust-" \o chan \o ".toml">>
      \o (IF chan = "stable"
          THEN <<rust_package_dir \o "/channel-rust-" \o short_version \o ".toml">>
          ELSE <<>>)

\* print_summary: the lines about the packages
summary_lines(m) ==
    LET Lines(name) ==
            LET tgts == sorted_keys(m.pkg[name].target)
            IN  [j \in 1..Len(tgts) |->
                    IF m.pkg[name].target[tgts[j]].available
                    THEN name \o " packaged for " \o tgts[j]
                    ELSE name \o " *not* packaged for " \o tgts[j]]
    IN  Lines("rust") \o Lines("rust-std")

-----------------------------------------------------------------------------
(* The run *)

Init ==
    /\ channel \in Channels
    /\ pc = "rustc_date"
    /\ error = ""
    /\ faults = 0
    /\ fetched = <<>>
    /\ temp_files = EmptyDict
    /\ installer_name = None
    /\ installer_file = None
    /\ rustc_date = None
    /\ rustc_version = None
    /\ rustc_short_version = None
    /\ cargo_date = None
    /\ cargo_version = None
    /\ cargo_short_version = None
    /\ pkg_idx = 1
    /\ tgt_idx = 0
    /\ target_pkgs = EmptyDict
    /\ call = None
    /\ probes = <<>>
    /\ live_url = None
    /\ packages = EmptyDict
    /\ host_idx = 0
    /\ rust_target_pkgs = EmptyDict
    /\ local_files = EmptyDict
    /\ manifest = None
    /\ written = <<>>
    /\ summary = <<>>

resolved == <<rustc_date, rustc_version, rustc_short_version,
              cargo_date, cargo_version, cargo_short_version>>

scratch == <<temp_files, installer_name, installer_file>>

building == <<pkg_idx, tgt_idx, target_pkgs, call, probes, live_url,
              packages, host_idx, rust_target_pkgs, local_files, manifest>>

output == <<written, summary>>

\* An exception nothing catches ends the run.
Raise(kind) == pc' = "aborted" /\ error' = kind

Logged(url, resp) == fetched' = Append(fetched, [url |-> url, resp |-> resp])

ok(resp) == ~resp.raised /\ resp.code = HTTP_OK

\* main: rustc_date = most_recent_build_date(channel, "rustc")
RustcDate ==
    /\ pc = "rustc_date"
    /\ \E resp \in GetResponses({DateBody("rustc")}) :
        /\ Logged(date_url(channel, "rustc"), resp)
        /\ IF ok(resp)
           THEN rustc_date' = Strip(resp.body) /\ pc' = "rustc_listing"
                /\ UNCHANGED error
           ELSE Raise("date") /\ UNCHANGED rustc_date
    /\ UNCHANGED <<channel, faults, scratch, building, output, rustc_version,
                   rustc_short_version, cargo_date, cargo_version,
                   cargo_short_version>>

\* The arguments of the two version_from_channel calls of main.
vfc_channel(c) == IF c = "rustc" THEN channel ELSE "nightly"

vfc_date(c) == IF c = "rustc" THEN rustc_date ELSE cargo_date

\* version_from_channel: load the manifest and find the installer name
FetchListing(c) ==
    /\ pc = c \o "_listing"
    /\ \E resp \in GetResponses(ListingBodies(vfc_channel(c), c)) :
        /\ Logged(manifest_url(vfc_channel(c), c, vfc_date(c)), resp)
        /\ IF ~ok(resp)
           THEN Raise("listing") /\ UNCHANGED installer_name
           ELSE LET name == installer_name_of(resp.body, c) IN
                IF name = None
                THEN Raise("no_installer") /\ UNCHANGED installer_name
                ELSE /\ installer_name' = name
                     /\ pc' = c \o "_installer"
                     /\ UNCHANGED error
    /\ UNCHANGED <<channel, faults, temp_files, installer_file, resolved,
                   building, output>>

\* version_from_channel: download the installer into temp_dir
DownloadInstaller(c) ==
    /\ pc = c \o "_installer"
    /\ \E resp \in GetResponses(Archives(c)) :
        /\ Logged(installer_url(c, vfc_date(c), installer_name), resp)
        /\ IF ~ok(resp)
           THEN Raise("installer") /\ UNCHANGED <<temp_files, installer_file>>
           ELSE /\ installer_file' = temp_dir \o "/" \o installer_name
                /\ temp_files' = (installer_file' :> resp.body) @@ temp_files
                /\ pc' = c \o "_unpack"
                /\ UNCHANGED error
    /\ UNCHANGED <<channel, faults, installer_name, resolved, building, output>>

\* version_from_channel: os.mkdir(unpack_dir) and tar xzf
UnpackInstaller(c) ==
    /\ pc = c \o "_unpack"
    /\ IF unpack_dir \in DOMAIN temp_files
       THEN Raise("mkdir") /\ UNCHANGED temp_files
       ELSE LET archive == temp_files[installer_file] IN
            IF ~archive.gzip_tar
            THEN /\ temp_files' = (unpack_dir :> "") @@ temp_files
                 /\ Raise("extract")
            ELSE /\ temp_files' =
                      IF archive.version = None
                      THEN (unpack_dir :> "") @@ temp_files
                      ELSE (version_file :> archive.version)
                             @@ (unpack_dir :> "") @@ temp_files
                 /\ pc' = c \o "_version"
                 /\ UNCHANGED error
    /\ UNCHANGED <<channel, faults, fetched, installer_name, installer_file,
                   resolved, building, output>>

\* version_from_channel: read the version file, remove unpack_dir and the
\* installer, return the version to main
ReadVersion(c) ==
    /\ pc = c \o "_version"
    /\ IF version_file \notin DOMAIN temp_files
       THEN Raise("version_file")
            /\ UNCHANGED <<temp_files, rustc_version, cargo_version>>
       ELSE /\ temp_files' =
                  [p \in {q \in DOMAIN temp_files :
                            /\ q # installer_file
                            /\ q # unpack_dir
                            /\ ~StartsWith(q, unpack_dir \o "/")}
                     |-> temp_files[p]]
            /\ IF c = "rustc"
               THEN rustc_version' = Strip(temp_files[version_file])
                    /\ UNCHANGED cargo_version
               ELSE cargo_version' = Strip(temp_files[version_file])
                    /\ UNCHANGED rustc_version
            /\ pc' = c \o "_parse"
            /\ UNCHANGED error
    /\ UNCHANGED <<channel, faults, fetched, installer_name, installer_file,
                   rustc_date, rustc_short_version, cargo_date,
                   cargo_short_version, building, output>>

\* main: rustc_short_version = parse_short_version(rustc_version)
ParseRustcVersion ==
    /\ pc = "rustc_parse"
    /\ LET v == parse_short_version(rustc_version) IN
       IF v = None
       THEN Raise("parse") /\ UNCHANGED rustc_short_version
       ELSE rustc_short_version' = v /\ pc' = "cargo_date" /\ UNCHANGED error
    /\ UNCHANGED <<channel, faults, fetched, scratch, rustc_date, rustc_version,
                   cargo_date, cargo_version, cargo_short_version, building,
                   output>>

\* main: nightly rust is paired with nightly cargo
CargoDateNightly ==
    /\ pc = "cargo_date"
    /\ channel = "nightly"
    /\ \E resp \in GetResponses({DateBody("cargo")}) :
        /\ Logged(date_url("nightly", "cargo"), resp)
        /\ IF ok(resp)
           THEN cargo_date' = Strip(resp.body) /\ pc' = "cargo_listing"
                /\ UNCHANGED error
           ELSE Raise("date") /\ UNCHANGED cargo_date
    /\ UNCHANGED <<channel, faults, scratch, building, output, rustc_date,
                   rustc_version, rustc_short_version, cargo_version,
                   cargo_short_version>>

\* main: beta and stable rust are paired with the cargo of cargo-revs.txt
CargoDateFromPackaging ==
    /\ pc = "cargo_date"
    /\ channel # "nightly"
    /\ \E resp \in GetResponses(CargoRevsBodies) :
        /\ Logged(cargo_revs, resp)
        /\ IF ~ok(resp)
           THEN Raise("cargo_revs") /\ UNCHANGED cargo_date
           ELSE LET r == cargo_date_from_packaging(resp.body, rustc_short_version)
                IN  IF r.raised # ""
                    THEN Raise(r.raised) /\ UNCHANGED cargo_date
                    ELSE cargo_date' = r.date /\ pc' = "cargo_listing"
                         /\ UNCHANGED error
    /\ UNCHANGED <<channel, faults, scratch, building, output, rustc_date,
                   rustc_version, rustc_short_version, cargo_version,
                   cargo_short_version>>

\* main: cargo_short_version = parse_short_version(cargo_version), then
\* generate_manifest calls build_manifest
ParseCargoVersion ==
    /\ pc = "cargo_parse"
    /\ LET v == parse_short_version(cargo_version) IN
       IF v = None
       THEN Raise("parse") /\ UNCHANGED cargo_short_version
       ELSE cargo_short_version' = v /\ pc' = "probe1" /\ UNCHANGED error
    /\ UNCHANGED <<channel, faults, fetched, scratch, rustc_date, rustc_version,
                   rustc_short_version, cargo_date, cargo_version, building,
                   output>>

\* The build_package_def_from_archive call in progress and its arguments.
cur == PackageCalls[pkg_idx]

cur_date == IF cur.of = "cargo" THEN cargo_date ELSE rustc_date

cur_version == IF cur.of = "cargo" THEN cargo_version ELSE rustc_version

cur_short_version ==
    IF cur.of = "cargo" THEN cargo_short_version ELSE rustc_short_version

\* live_package_url: the HEAD request for url1
ProbeVersioned ==
    /\ pc = "probe1"
    /\ tgt_idx < Len(cur.targets)
    /\ LET target == cur.targets[tgt_idx + 1]
           urls == candidate_urls(channel, cur.name, cur.dist_dir, cur_date,
                                  cur_short_version, target)
       IN  \E resp \in HeadResponses :
            /\ call' = [name |-> cur.name, target |-> target,
                        version |-> cur_short_version,
                        url1 |-> urls[1], url2 |-> urls[2]]
            /\ probes' = <<[url |-> urls[1], resp |-> resp]>>
            /\ IF probe_confirms(resp)
               THEN live_url' = urls[1] /\ pc' = "located" /\ UNCHANGED faults
               ELSE /\ MayDeviate(faults, target)
                    /\ faults' = faults + 1
                    /\ live_url' = None
                    /\ pc' = "probe2"
    /\ UNCHANGED <<channel, error, fetched, scratch, resolved, pkg_idx, tgt_idx,
                   target_pkgs, packages, host_idx, rust_target_pkgs, local_files,
                   manifest, output>>

\* live_package_url: the HEAD request for url2, and the return
ProbeChannel ==
    /\ pc = "probe2"
    /\ \E resp \in HeadResponses :
        /\ probes' = Append(probes, [url |-> call.url2, resp |-> resp])
        /\ live_url' = IF probe_confirms(resp) THEN call.url2 ELSE None
    /\ pc' = "located"
    /\ UNCHANGED <<channel, error, faults, fetched, scratch, resolved, pkg_idx,
                   tgt_idx, target_pkgs, call, packages, host_idx,
                   rust_target_pkgs, local_files, manifest, output>>

\* build_package_def_from_archive: the rest of the body of the loop
RecordTarget ==
    /\ pc = "located"
    /\ IF live_url = None
       THEN /\ target_pkgs' = target_pkgs_after(target_pkgs, call.target, None, "")
            /\ tgt_idx' = tgt_idx + 1
            /\ pc' = "probe1"
            /\ UNCHANGED <<error, faults, fetched>>
       ELSE \E resp \in GetResponses({GoodSideFile} \cup BadSideFiles) :
            /\ Logged(live_url \o ".sha256", resp)
            /\ LET h == hash_from_s3_installer(resp) IN
               IF h.raised
               THEN Raise("hash") /\ UNCHANGED <<faults, target_pkgs, tgt_idx>>
               ELSE /\ IF resp.body \in BadSideFiles
                       THEN MayDeviate(faults, call.target) /\ faults' = faults + 1
                       ELSE UNCHANGED faults
                    /\ target_pkgs' =
                          target_pkgs_after(target_pkgs, call.target, live_url, h.hash)
                    /\ tgt_idx' = tgt_idx + 1
                    /\ pc' = "probe1"
                    /\ UNCHANGED error
    /\ UNCHANGED <<channel, scratch, resolved, pkg_idx, call, probes, live_url,
                   packages, host_idx, rust_target_pkgs, local_files, manifest,
                   output>>

\* build_package_def_from_archive returns; build_manifest goes on to the next
\* call, or to the 'rust' package after the last
ReturnPackage ==
    /\ pc = "probe1"
    /\ tgt_idx = Len(cur.targets)
    /\ packages' = (cur.name :> [version |-> cur_version, target |-> target_pkgs])
                      @@ packages
    /\ target_pkgs' = EmptyDict
    /\ tgt_idx' = 0
    /\ IF pkg_idx < Len(PackageCalls)
       THEN pkg_idx' = pkg_idx + 1 /\ UNCHANGED pc
       ELSE pc' = "rust" /\ UNCHANGED pkg_idx
    /\ UNCHANGED <<channel, error, faults, fetched, scratch, resolved, call,
                   probes, live_url, host_idx, rust_target_pkgs, local_files,
                   manifest, output>>

\* build_manifest: the body of the loop over host_list
BuildRustTarget ==
    /\ pc = "rust"
    /\ host_idx < Len(host_list)
    /\ LET host == host_list[host_idx + 1] IN
       \E local \in LocalArchives \cup {None} :
        /\ IF local = None
           THEN MayDeviate(faults, host) /\ faults' = faults + 1
           ELSE UNCHANGED faults
        /\ rust_target_pkgs' =
              (host :> rust_target_pkg(host,
                          url_and_hash_of_rust_package(channel, host,
                                                       rustc_short_version, local)))
                @@ rust_target_pkgs
        /\ local_files' =
              (local_file(channel, host, rustc_short_version) :> local)
                @@ local_files
    /\ host_idx' = host_idx + 1
    /\ UNCHANGED <<channel, pc, error, fetched, scratch, resolved, pkg_idx,
                   tgt_idx, target_pkgs, call, probes, live_url, packages,
                   manifest, output>>

\* build_manifest returns the manifest to generate_manifest
ReturnManifest ==
    /\ pc = "rust"
    /\ host_idx = Len(host_list)
    /\ packages' = ("rust" :> [version |-> rustc_version,
                               target |-> rust_target_pkgs]) @@ packages
    /\ manifest' = [manifest_version |-> "2", date |-> today, pkg |-> packages']
    /\ pc' = "write"
    /\ UNCHANGED <<channel, error, faults, fetched, scratch, resolved, pkg_idx,
                   tgt_idx, target_pkgs, call, probes, live_url, host_idx,
                   rust_target_pkgs, local_files, output>>

\* generate_manifest: write_manifest(m, manifest_file), once per file
WriteManifest ==
    /\ pc = "write"
    /\ LET files == manifest_files(channel, rustc_short_version) IN
        /\ written' = Append(written, [path |-> files[Len(written) + 1],
                                       document |-> Document(manifest)])
        /\ pc' = IF Len(written') < Len(files) THEN "write" ELSE "summary"
    /\ UNCHANGED <<channel, error, faults, fetched, scratch, resolved, building,
                   summary>>

\* generate_manifest: print_summary(m), and the script ends
PrintSummary ==
    /\ pc = "summary"
    /\ summary' = summary_lines(manifest)
    /\ pc' = "done"
    /\ UNCHANGED <<channel, error, faults, fetched, scratch, resolved, building,
                   written>>

Next ==
    \/ RustcDate
    \/ \E c \in {"rustc", "cargo"} : FetchListing(c)
    \/ \E c \in {"rustc", "cargo"} : DownloadInstaller(c)
    \/ \E c \in {"rustc", "cargo"} : UnpackInstaller(c)
    \/ \E c \in {"rustc", "cargo"} : ReadVersion(c)
    \/ ParseRustcVersion
    \/ CargoDateNightly
    \/ CargoDateFromPackaging
    \/ ParseCargoVersion
    \/ ProbeVersioned
    \/ ProbeChannel
    \/ RecordTarget
    \/ ReturnPackage
    \/ BuildRustTarget
    \/ ReturnManifest
    \/ WriteManifest
    \/ PrintSummary

Spec == Init /\ [][Next]_vars

-----------------------------------------------------------------------------
(* parse_short_version on its own, on every short string *)

VersionChars == {"7", ".", "x"}

RECURSIVE StringsUpTo(_)
StringsUpTo(n) ==
    IF n = 0 THEN {""}
    ELSE LET S == StringsUpTo(n - 1)
         IN  S \cup {s \o c : s \in S, c \in VersionChars}

InitParse ==
    /\ channel = "nightly"
    /\ pc = "rustc_parse"
    /\ error = ""
    /\ faults = 0
    /\ fetched = <<>>
    /\ temp_files = EmptyDict
    /\ installer_name = None
    /\ installer_file = None
    /\ rustc_date = None
    /\ rustc_version \in StringsUpTo(MaxVersionLen)
    /\ rustc_short_version = None
    /\ cargo_date = None
    /\ cargo_version = None
    /\ cargo_short_version = None
    /\ pkg_idx = 1
    /\ tgt_idx = 0
    /\ target_pkgs = EmptyDict
    /\ call = None
    /\ probes = <<>>
    /\ live_url = None
    /\ packages = EmptyDict
    /\ host_idx = 0
    /\ rust_target_pkgs = EmptyDict
    /\ local_files = EmptyDict
    /\ manifest = None
    /\ written = <<>>
    /\ summary = <<>>

NextParse == ParseRustcVersion

SpecParse == InitParse /\ [][NextParse]_vars

-----------------------------------------------------------------------------
(* Properties *)

Built == pc \in {"write", "summary", "done"}

HexDigits == Digits \cup {"a", "b", "c", "d", "e", "f"}

\* ^[0-9a-f]{64}$
IsLowerHex64(h) == Len(h) = 64 /\ \A i \in 1..64 : CharAt(h, i) \in HexDigits

\* C1: in a manifest build_manifest returned, every target record has
\* available = false exactly when url and hash are both empty, and an
\* available record has a hash of 64 lowercase hex digits.
C1_TargetRecords ==
    Built =>
        \A name \in DOMAIN manifest.pkg :
            \A t \in DOMAIN manifest.pkg[name].target :
                LET r == manifest.pkg[name].target[t] IN
                /\ (~r.available) <=> (r.url = "" /\ r.hash = "")
                /\ r.available => IsLowerHex64(r.hash)

PackageNames == {PackageCalls[i].name : i \in DOMAIN PackageCalls}

\* The exceptions the script raises before generate_manifest writes.
FatalKinds == {"date", "listing", "no_installer", "installer", "mkdir",
               "extract", "version_file", "parse", "cargo_revs", "IndexError",
               "no_cargo_rev", "hash"}

FetchFailed == \E i \in DOMAIN fetched :
                  fetched[i].resp.raised \/ fetched[i].resp.code # 200

\* C2: a file is written only once build_manifest has returned the whole
\* manifest (the six packages and a 'rust' record for every host), and a run
\* in which a fetch failed or that ended in a fatal error wrote nothing.
C2_NoPartialManifest ==
    /\ written # <<>> =>
          /\ Built
          /\ DOMAIN manifest.pkg = PackageNames \cup {"rust"}
          /\ DOMAIN manifest.pkg["rust"].target = Range(host_list)
          /\ \A i \in DOMAIN PackageCalls :
                DOMAIN manifest.pkg[PackageCalls[i].name].target
                    = Range(PackageCalls[i].targets)
    /\ (FetchFailed \/ error \in FatalKinds) => written = <<>>
    /\ error # "" => error \in FatalKinds /\ pc = "aborted"

C2_Witness == error = "hash" /\ pkg_idx > 1 /\ written = <<>>

\* The record the last live_package_url call led to, once it is stored.
Recorded ==
    pc \in {"probe1", "rust"} \cup {"write", "summary", "done"} /\ probes # <<>>

\* The dict that holds it: target_pkgs until the package is returned.
LastRecords ==
    IF call.name \in DOMAIN packages THEN packages[call.name].target
    ELSE target_pkgs

SideFileFetched(url) ==
    \E i \in DOMAIN fetched : fetched[i].url = url \o ".sha256"

\* C3: a target live_package_url finds no url for gets the unavailable record,
\* no side-file is fetched for it and the run goes on; the only exception of
\* the loop is a failed side-file fetch; and a package that is returned has
\* exactly the targets supplied as its keys.
C3_MissingTargetIsSoft ==
    /\ (Recorded /\ live_url = None) =>
          /\ call.target \in DOMAIN LastRecords
          /\ LastRecords[call.target]
                = [available |-> FALSE, url |-> "", hash |-> ""]
          /\ ~SideFileFetched(call.url1)
          /\ ~SideFileFetched(call.url2)
    /\ (pc = "located" /\ live_url = None) => error = ""
    /\ error = "hash" => live_url # None
    /\ pc \in {"probe1", "probe2", "located"} =>
          DOMAIN target_pkgs = {cur.targets[i] : i \in 1..tgt_idx}
    /\ \A i \in DOMAIN PackageCalls :
          PackageCalls[i].name \in DOMAIN packages =>
              DOMAIN packages[PackageCalls[i].name].target
                  = Range(PackageCalls[i].targets)

C3_Witness ==
    /\ "rust-std" \in DOMAIN packages
    /\ ~packages["rust-std"].target["wasm32-unknown-emscripten"].available
    /\ packages["rust-std"].target["x86_64-unknown-netbsd"].available

Is200(resp) == ~resp.raised /\ resp.code = 200

\* C4: live_package_url probes the version-tagged url first and once; it
\* returns it when that probe answers 200 and only then probes nothing else;
\* otherwise it probes the channel-tagged url once and returns it when that
\* answers 200; it returns None exactly when neither probe answers 200.
C4_ProbeOrder ==
    /\ pc \in {"probe2", "located"} =>
          /\ probes[1].url = call.url1
          /\ Contains(call.url1, "-" \o call.version)
          /\ Contains(call.url2,
                      "-" \o (IF call.name = "cargo" THEN "nightly" ELSE channel))
    /\ pc = "probe2" => Len(probes) = 1 /\ ~Is200(probes[1].resp)
    /\ pc = "located" =>
          IF Is200(probes[1].resp)
          THEN Len(probes) = 1 /\ live_url = call.url1
          ELSE /\ Len(probes) = 2
               /\ probes[2].url = call.url2
               /\ live_url = IF Is200(probes[2].resp) THEN call.url2 ELSE None

C4_Witness ==
    /\ pc = "located"
    /\ probes[1].resp.raised
    /\ live_url = call.url2
    /\ call.url1 # call.url2

\* The lines of cargo-revs.txt that pair rustc_short_version with a date.
RevLines(body) == Split(Strip(body), "\n")

Pairs(line, date) ==
    LET values == Split(line, ":") IN
    /\ Len(values) >= 2
    /\ Strip(values[1]) = rustc_short_version
    /\ Strip(values[2]) = date

HasPairing(line) ==
    LET values == Split(line, ":") IN
    Len(values) >= 2 /\ Strip(values[1]) = rustc_short_version

\* C5: on nightly cargo-revs.txt is never fetched and the cargo date is what
\* most_recent_build_date("nightly", "cargo") read; on another channel the
\* cargo date is the date field of the (first) line of cargo-revs.txt whose
\* trimmed version field is the rustc short version, and the run aborts with
\* no cargo date when no line is.
C5_CargoDate ==
    /\ channel = "nightly" =>
          /\ \A i \in DOMAIN fetched : fetched[i].url # cargo_revs
          /\ cargo_date # None =>
                \E i \in DOMAIN fetched :
                    /\ fetched[i].url =
                          s3_addy \o "/cargo-dist/channel-cargo-nightly-date.txt"
                    /\ Is200(fetched[i].resp)
                    /\ cargo_date = Strip(fetched[i].resp.body)
    /\ channel # "nightly" =>
          \A i \in DOMAIN fetched :
              (fetched[i].url = cargo_revs /\ Is200(fetched[i].resp)) =>
                  LET lines == RevLines(fetched[i].resp.body) IN
                  /\ cargo_date # None =>
                        \E k \in DOMAIN lines :
                            /\ Pairs(lines[k], cargo_date)
                            /\ \A j \in 1..(k - 1) : ~HasPairing(lines[j])
                  /\ (\A k \in DOMAIN lines : ~HasPairing(lines[k])) =>
                        /\ pc = "aborted"
                        /\ cargo_date = None
    /\ (channel # "nightly" /\ cargo_date # None) =>
          \E i \in DOMAIN fetched : fetched[i].url = cargo_revs

C5_Witness ==
    /\ channel = "stable"
    /\ pc = "cargo_listing"
    /\ cargo_date = "2016-12-18"
    /\ \E i \in DOMAIN fetched :
          /\ fetched[i].url = cargo_revs
          /\ Len(RevLines(fetched[i].resp.body)) = 3

\* Whether s starts with digits '.' digits '.' digits, no part empty, and
\* that prefix.
TripleParts(s) ==
    LET a == DigitRun(s)
        b == DigitRun(Drop(s, a + 1))
        c == DigitRun(Drop(s, a + b + 2))
    IN  <<a, b, c>>

StartsWithTriple(s) ==
    LET n == TripleParts(s) IN
    /\ n[1] > 0 /\ n[2] > 0 /\ n[3] > 0
    /\ CharAt(s, n[1] + 1) = "."
    /\ CharAt(s, n[1] + n[2] + 2) = "."

TriplePrefix(s) ==
    LET n == TripleParts(s) IN Take(s, n[1] + n[2] + n[3] + 2)

\* C6: parse_short_version fails on every string that does not start with a
\* numeric dotted triple with no part empty, and returns the triple of every
\* string that starts with one.
C6_ParseShortVersion ==
    pc # "rustc_parse" =>
        IF StartsWithTriple(rustc_version)
        THEN error = "" /\ rustc_short_version = TriplePrefix(rustc_version)
        ELSE error = "parse" /\ rustc_short_version = None

\* C7: every entry of the components and extensions of every host of the
\* 'rust' package names a package of the manifest and a target that package
\* has a record for.
C7_ReferencesResolve ==
    Built =>
        \A host \in DOMAIN manifest.pkg["rust"].target :
            LET r == manifest.pkg["rust"].target[host]
                Resolves(e) == /\ e.pkg \in DOMAIN manifest.pkg
                               /\ e.target \in DOMAIN manifest.pkg[e.pkg].target
            IN  /\ \A i \in DOMAIN r.components : Resolves(r.components[i])
                /\ \A i \in DOMAIN r.extensions : Resolves(r.extensions[i])

C7_Witness ==
    /\ pc = "done"
    /\ LET r == manifest.pkg["rust"].target["x86_64-pc-windows-gnu"] IN
        /\ \E i \in DOMAIN r.components :
              r.components[i] = [pkg |-> "rust-mingw", target |-> "x86_64-pc-windows-gnu"]
        /\ \E i \in DOMAIN r.components :
              r.components[i] = [pkg |-> "rust-std", target |-> "x86_64-pc-windows-gnu"]
        /\ \E i \in DOMAIN r.extensions :
              r.extensions[i] = [pkg |-> "rust-src", target |-> "*"]
        /\ \E i \in DOMAIN r.extensions :
              r.extensions[i] = [pkg |-> "rust-std", target |-> "aarch64-apple-ios"]

\* C8: the required components of every host are rustc, rust-std, rust-docs
\* and cargo for that host, in this order, followed by rust-mingw for that
\* host exactly when the host is in mingw_list.
C8_RequiredComponents ==
    \A host \in DOMAIN rust_target_pkgs :
        LET c == rust_target_pkgs[host].components IN
        /\ Len(c) = IF host \in Range(mingw_list) THEN 5 ELSE 4
        /\ c[1] = [pkg |-> "rustc", target |-> host]
        /\ c[2] = [pkg |-> "rust-std", target |-> host]
        /\ c[3] = [pkg |-> "rust-docs", target |-> host]
        /\ c[4] = [pkg |-> "cargo", target |-> host]
        /\ Len(c) = 5 => c[5] = [pkg |-> "rust-mingw", target |-> host]

C8_Witness ==
    /\ DOMAIN rust_target_pkgs = Range(host_list)
    /\ Len(rust_target_pkgs["i686-pc-windows-gnu"].components) = 5
    /\ Len(rust_target_pkgs["i686-pc-windows-msvc"].components) = 4
    /\ Len(rust_target_pkgs["arm-unknown-linux-gnueabi"].components) = 4

\* C9: a run that completes on stable has written channel-rust-stable.toml
\* and channel-rust-<rustc short version>.toml with the same contents, and a
\* run that completes on another channel has written channel-rust-<channel>.toml
\* alone.
C9_ManifestFiles ==
    pc = "done" =>
        IF channel = "stable"
        THEN /\ Len(written) = 2
             /\ written[1].path = rust_package_dir \o "/channel-rust-stable.toml"
             /\ written[2].path = rust_package_dir \o "/channel-rust-"
                                      \o rustc_short_version \o ".toml"
             /\ written[1].path # written[2].path
             /\ written[1].document = written[2].document
        ELSE /\ Len(written) = 1
             /\ written[1].path = rust_package_dir \o "/channel-rust-"
                                      \o channel \o ".toml"

C9_Witness ==
    /\ pc = "done"
    /\ channel = "stable"
    /\ Len(written) = 2
    /\ Len(written[2].document.pkgs) = 7

\* version_from_channel is between its download and its return.
InVersionFromChannel ==
    \E c \in {"rustc", "cargo"} :
        pc \in {c \o "_installer", c \o "_unpack", c \o "_version"}

\* C10: once version_from_channel has returned or raised, the installer it
\* downloaded is no longer in temp_dir, and after a return neither is the
\* unpack directory.
C10_ScratchCleaned ==
    ~InVersionFromChannel =>
        /\ installer_file \notin DOMAIN temp_files
        /\ error = "" => unpack_dir \notin DOMAIN temp_files

\* The name the 'rust' archive of a host has: rust-<seg>-<host>.tar.gz, <seg>
\* the rustc short version on stable and the channel name otherwise.
RustArchiveName(host) ==
    "rust-" \o (IF channel = "stable" THEN rustc_short_version ELSE channel)
            \o "-" \o host \o ".tar.gz"

\* The hosts whose 'rust' record build_manifest has made so far.
HostsDone == {host_list[i] : i \in 1..host_idx}

\* The record of a host agrees with what the package directory held.
RustRecordAgrees(host) ==
    LET path == rust_package_dir \o "/" \o RustArchiveName(host) IN
    /\ host \in DOMAIN rust_target_pkgs
    /\ path \in DOMAIN local_files
    /\ LET rec == rust_target_pkgs[host]
           present == local_files[path] # None
       IN  /\ rec.available <=> present
           /\ present =>
                /\ rec.url = public_addy \o "/dist/" \o today \o "/"
                                \o RustArchiveName(host)
                /\ rec.hash = sha256_hexdigest(local_files[path])
           /\ ~present => rec.url = "" /\ rec.hash = ""

RustRecordsAgree ==
    /\ \A host \in HostsDone : RustRecordAgrees(host)
    /\ Cardinality(DOMAIN local_files) = host_idx
    /\ DOMAIN rust_target_pkgs = HostsDone
    /\ host_idx > 0 /\ pc # "aborted" => error = ""
    /\ Built => host_idx = Len(host_list)

\* A step that makes the 'rust' record of a host asks nothing of the network.
RustRecordOffline ==
    host_idx' # host_idx =>
        /\ fetched' = fetched
        /\ probes' = probes
        /\ pc' = "rust" /\ error' = ""

\* C11: the 'rust' record of every host is made without a network operation;
\* it is available exactly when rust-<seg>-<host>.tar.gz is in the package
\* directory (<seg> the rustc short version on stable, the channel otherwise);
\* when the file is absent the record is unavailable with empty url and hash
\* and the loop goes on to the next host; when it is present the url is
\* <public address>/dist/<today>/rust-<seg>-<host>.tar.gz.
C11_RustRecordIsLocal == [](RustRecordsAgree) /\ [][RustRecordOffline]_vars

C11_Witness ==
    /\ pc = "done"
    /\ channel = "stable"
    /\ ~rust_target_pkgs["x86_64-pc-windows-gnu"].available
    /\ rust_target_pkgs["x86_64-pc-windows-gnu"].hash = ""
    /\ rust_target_pkgs["x86_64-unknown-netbsd"].available
    /\ Len(written) = 2

====
